---- MODULE Spec2Model ----
(***************************************************************************)
(* Model of azlogconvert.py: the record-to-entry conversion pipeline       *)
(*   split_records(convert_records(read_records(f)))                       *)
(* and its pure helpers (entry_header, occurred_at, normalize_tag).        *)
(*                                                                         *)
(* A Python str is modelled as a sequence of one-character strings, so     *)
(* that startswith, slicing, re.sub, replace, strip and join are computed  *)
(* character by character as the interpreter computes them.                *)
(* An instant (datetime) is modelled as the integer number of              *)
(* microseconds since 0001-01-01T00:00:00Z.                                *)
(***************************************************************************)
EXTENDS Integers, Sequences, FiniteSets, TLC

VARIABLES
    consumed,   \* records that read_records has yielded so far (input history)
    opened,     \* convert_records' local `opened`: None or an OpenedLogEntry
    emitted,    \* the LogEntry values convert_records has yielded so far
    groups,     \* split_records' local `groups` (tag -> list of LogEntry)
    tagOrder,   \* insertion order of the keys of `groups`
    pc,         \* "running", "returned" (split_records returned), "raised",
                \* "writing" (directory made), "done" (convert_files returned)
    error,      \* "none", or which ValueError was raised: "orphan" / "empty"
    returned,   \* the mapping split_records returned, or None
    logDir,     \* convert_files: whether os.mkdir(log_dir_name) has been done
    files,      \* convert_files: tag -> entries written to '<tag>.txt'
    run,        \* number of the conversion run of this process
    prev,       \* input and outcome of the run before this one, or None
    hdrIn,      \* entry_header harness: the record
    hdrOut,     \* entry_header harness: <<>>, or <<result of entry_header>>
    tagIn,      \* normalize_tag harness: the argument
    tagOut,     \* normalize_tag harness: results of successive applications
    tickIn,     \* occurred_at harness: the tick count
    tickOut     \* occurred_at harness: instants computed for ticks and 2*ticks

vars == <<consumed, opened, emitted, groups, tagOrder, pc, error, returned,
          logDir, files, run, prev, hdrIn, hdrOut, tagIn, tagOut, tickIn, tickOut>>

convVars == <<consumed, opened, emitted, groups, tagOrder, pc, error, returned>>
tagVars == <<tagIn, tagOut>>
tickVars == <<tickIn, tickOut>>
fileVars == <<logDir, files>>
runVars == <<run, prev>>
hdrVars == <<hdrIn, hdrOut>>

----------------------------------------------------------------------------
(* Bounds of the model *)

\* longest input (number of records) a conversion run reads
MaxRecords == 5
\* longest generated argument of normalize_tag
MaxTagLen == 5
\* largest tick count given to occurred_at in the tick harness
MaxTicks == 120
\* longest generated text behind the head of a message given to entry_header
MaxRestLen == 2
\* longest input of a run that follows another run of the process
MaxRerunRecords == 2
\* number of conversion runs of one process
MaxRuns == 2

----------------------------------------------------------------------------
(* Python str helpers *)

\* characters str.strip() removes (ASCII whitespace)
Whitespace == {" ", "\t", "\n", "\r", "\f"}

\* characters the regular expression class \d matches (ASCII digits)
Digits == {"0", "1", "2", "3", "4", "5", "6", "7", "8", "9"}

\* s.startswith(prefix)
StartsWith(s, prefix) ==
    /\ Len(prefix) <= Len(s)
    /\ SubSeq(s, 1, Len(prefix)) = prefix

\* s.lstrip(): drop whitespace from the left end
RECURSIVE LStrip(_)
LStrip(s) ==
    IF s = <<>> THEN <<>>
    ELSE IF Head(s) \in Whitespace THEN LStrip(Tail(s))
    ELSE s

\* s.rstrip(): drop whitespace from the right end
RECURSIVE RStrip(_)
RStrip(s) ==
    IF s = <<>> THEN <<>>
    ELSE IF s[Len(s)] \in Whitespace THEN RStrip(SubSeq(s, 1, Len(s) - 1))
    ELSE s

\* s.strip()
Strip(s) == RStrip(LStrip(s))

\* s.replace(".", "_")
ReplaceDots(s) == [i \in 1..Len(s) |-> IF s[i] = "." THEN "_" ELSE s[i]]

\* BRACKET_PATTERN = re.compile(r'\[\d]') matches at the head of s
BracketMatch(s) ==
    /\ Len(s) >= 3
    /\ s[1] = "["
    /\ s[2] \in Digits
    /\ s[3] = "]"

\* BRACKET_PATTERN.sub("", s): one left-to-right scan; after a match the scan
\* resumes behind the match and never rescans the text already produced.
RECURSIVE BracketSub(_)
BracketSub(s) ==
    IF s = <<>> THEN <<>>
    ELSE IF BracketMatch(s) THEN BracketSub(SubSeq(s, 4, Len(s)))
    ELSE <<Head(s)>> \o BracketSub(Tail(s))

\* normalize_tag with the blanks stripped before the markers are removed
normalize_tag_strip_first(source) == ReplaceDots(BracketSub(Strip(source)))

\* normalize_tag(source)
normalize_tag(source) == Strip(ReplaceDots(BracketSub(source)))

\* "\n".join(messages)
RECURSIVE JoinLines(_)
JoinLines(messages) ==
    IF messages = <<>> THEN <<>>
    ELSE IF Len(messages) = 1 THEN messages[1]
    ELSE messages[1] \o <<"\n">> \o JoinLines(Tail(messages))

----------------------------------------------------------------------------
(* LogRecord *)

LOG_LEVELS == <<"info", "warn", "fail">>

\* the characters of f"{level}: "
LevelPrefix(level) ==
    CASE level = "info" -> <<"i", "n", "f", "o", ":", " ">>
      [] level = "warn" -> <<"w", "a", "r", "n", ":", " ">>
      [] level = "fail" -> <<"f", "a", "i", "l", ":", " ">>

\* LogRecord.entry_header: the first level of LOG_LEVELS whose prefix the
\* message starts with, and the message behind the prefix (len(level) + 2
\* characters are cut off); None otherwise.  An Optional value is <<>> (None)
\* or <<v>>.
RECURSIVE HeaderFrom(_, _)
HeaderFrom(msg, k) ==
    IF k > Len(LOG_LEVELS) THEN <<>>
    ELSE IF ~StartsWith(msg, LevelPrefix(LOG_LEVELS[k])) THEN HeaderFrom(msg, k + 1)
    ELSE << [level |-> LOG_LEVELS[k],
             message |-> SubSeq(msg, Len(LevelPrefix(LOG_LEVELS[k])) + 1, Len(msg))] >>

\* entry_header cutting one character too few: msg[len(level) + 1:]
RECURSIVE HeaderFromKeepBlank(_, _)
HeaderFromKeepBlank(msg, k) ==
    IF k > Len(LOG_LEVELS) THEN <<>>
    ELSE IF ~StartsWith(msg, LevelPrefix(LOG_LEVELS[k])) THEN HeaderFromKeepBlank(msg, k + 1)
    ELSE << [level |-> LOG_LEVELS[k],
             message |-> SubSeq(msg, Len(LevelPrefix(LOG_LEVELS[k])), Len(msg))] >>

entry_header_keep_blank(record) == HeaderFromKeepBlank(record.message, 1)

entry_header(record) == HeaderFrom(record.message, 1)

\* datetime.datetime(1, 1, 1), in microseconds since 0001-01-01T00:00:00
EpochInstant == 0

\* datetime.timedelta(microseconds=x) for the float x = num / 10: the whole part
\* is taken exactly, the fraction is rounded to the nearest microsecond, a tie
\* going to the even total (round-half-even).  Exact for the tick counts of the
\* model, where num / 10 carries no float error that changes the rounding.
TimedeltaMicroseconds(num) ==
    LET whole == num \div 10
        rest == num % 10
    IN IF rest > 5 THEN whole + 1
       ELSE IF rest < 5 THEN whole
       ELSE IF whole % 2 = 1 THEN whole + 1
       ELSE whole

\* occurred_at counted from one second after the epoch
occurred_at_late_epoch(ticks) == 1000000 + TimedeltaMicroseconds(ticks)

\* LogRecord.occurred_at, for a record with the given ticks
occurred_at(ticks) == EpochInstant + TimedeltaMicroseconds(ticks)

----------------------------------------------------------------------------
(* The rows a run may read: two headers of one tag with their continuation  *)
(* lines, a header whose tag carries blanks, a bracket marker and a dot, a   *)
(* continuation line with surrounding blanks.  Rows arrive in any order, so  *)
(* tick counts need not increase along the input.                            *)

\* "info: Boot"
mInfoBoot ==
    <<"i", "n", "f", "o", ":", " ", "B", "o", "o", "t">>

\* "Started ok"
mStartedOk ==
    <<"S", "t", "a", "r", "t", "e", "d", " ", "o", "k">>

\* "warn: Boot"
mWarnBoot ==
    <<"w", "a", "r", "n", ":", " ", "B", "o", "o", "t">>

\* "Retrying"
mRetrying ==
    <<"R", "e", "t", "r", "y", "i", "n", "g">>

\* "fail:  Worker[2].Startup " (a blank before and behind the tag)
mFailWorker ==
    <<"f", "a", "i", "l", ":", " ", " ", "W", "o", "r", "k", "e", "r", "[", "2", "]", ".", "S", "t", "a", "r", "t", "u", "p", " ">>

\* " pad "
mPadded ==
    <<" ", "p", "a", "d", " ">>

LogRecord(ticks, message) == [ticks |-> ticks, message |-> message]

\* the rows read_records may yield
Records ==
    { LogRecord(100, mInfoBoot), LogRecord(200, mStartedOk),
      LogRecord(300, mWarnBoot), LogRecord(400, mRetrying),
      LogRecord(15, mFailWorker), LogRecord(7, mPadded) }

----------------------------------------------------------------------------
(* OpenedLogEntry and LogEntry.  An Optional value is <<>> (None) or <<v>>. *)

\* OpenedLogEntry.__init__ taking the text of the header as tag
OpenedLogEntryRawTag(header, at) ==
    [level |-> header.level,
     tag |-> header.message,
     occurred_at |-> at,
     messages |-> <<>>]

\* OpenedLogEntry.__init__(header, occurred_at)
OpenedLogEntry(header, at) ==
    [level |-> header.level,
     tag |-> normalize_tag(header.message),
     occurred_at |-> at,
     messages |-> <<>>]

\* add_message keeping the line without its surrounding blanks
add_message_stripped(o, message) == [o EXCEPT !.messages = Append(@, Strip(message))]

\* OpenedLogEntry.add_message(message)
add_message(o, message) == [o EXCEPT !.messages = Append(@, message)]

\* close() without the check for an entry that has no messages
close_unchecked(o) ==
    << [occurred_at |-> o.occurred_at,
        tag |-> o.tag,
        level |-> o.level,
        message |-> Strip(JoinLines(o.messages))] >>

\* OpenedLogEntry.close(): <<>> stands for the ValueError("... has no messages"),
\* <<entry>> for the LogEntry returned
close(o) ==
    IF o.messages = <<>> THEN <<>>
    ELSE << [occurred_at |-> o.occurred_at,
             tag |-> o.tag,
             level |-> o.level,
             message |-> Strip(JoinLines(o.messages))] >>

\* the branch one iteration of convert_records' loop takes (lines 110-118)
ConvertBranch(o, record) ==
    IF entry_header(record) = <<>>
    THEN IF o = <<>> THEN "raise_orphan" ELSE "add_message"
    ELSE IF o # <<>> THEN "close_and_open" ELSE "open"

\* what convert_records yields once its source is exhausted: the loop ends and
\* the function returns; `opened` is dropped
YieldAtEnd(o) == <<>>

\* s with entry inserted before its first element that is later in time
RECURSIVE InsertByTime(_, _)
InsertByTime(s, entry) ==
    IF s = <<>> THEN <<entry>>
    ELSE IF Head(s).occurred_at > entry.occurred_at THEN <<entry>> \o s
    ELSE <<Head(s)>> \o InsertByTime(Tail(s), entry)

\* split_records keeping every group sorted by time
GroupAppendSorted(g, entry) ==
    [t \in DOMAIN g \cup {entry.tag} |->
        IF t = entry.tag
        THEN InsertByTime(IF t \in DOMAIN g THEN g[t] ELSE <<>>, entry)
        ELSE g[t]]

\* split_records assigning a new list instead of appending to the group
GroupAppendOverwrite(g, entry) ==
    [t \in DOMAIN g \cup {entry.tag} |->
        IF t = entry.tag THEN <<entry>> ELSE g[t]]

\* one iteration of split_records' loop: groups[entry.tag].append(entry)
GroupAppend(g, entry) ==
    [t \in DOMAIN g \cup {entry.tag} |->
        IF t = entry.tag
        THEN Append(IF t \in DOMAIN g THEN g[t] ELSE <<>>, entry)
        ELSE g[t]]

\* split_records' loop over a sequence of yielded entries
RECURSIVE GroupAll(_, _)
GroupAll(g, entries) ==
    IF entries = <<>> THEN g
    ELSE GroupAll(GroupAppend(g, Head(entries)), Tail(entries))

\* key order of the defaultdict after groups[entry.tag] is touched
OrderAppend(order, entry) ==
    IF \E i \in 1..Len(order) : order[i] = entry.tag THEN order
    ELSE Append(order, entry.tag)

----------------------------------------------------------------------------
(* The conversion run: split_records(convert_records(read_records(f))).     *)
(* The three generators run in lock step: each action is one iteration of   *)
(* convert_records' loop together with the iterations of split_records'     *)
(* loop that its yield drives.                                               *)

ConvInit ==
    /\ consumed = <<>>
    /\ opened = <<>>
    /\ emitted = <<>>
    /\ groups = <<>>
    /\ tagOrder = <<>>
    /\ pc = "running"
    /\ error = "none"
    /\ returned = <<>>

\* nothing created or written yet; the first run of the process
FileInit == logDir = FALSE /\ files = <<>>
RunInit == run = 1 /\ prev = <<>>

TagIdle == tagIn = <<>> /\ tagOut = <<>>
TickIdle == tickIn = 0 /\ tickOut = <<>>
HdrIdle == hdrIn = [ticks |-> 0, message |-> <<>>] /\ hdrOut = <<>>

Init == ConvInit /\ FileInit /\ RunInit /\ HdrIdle /\ TagIdle /\ TickIdle

\* how many records the input of the current run may have
ReadLimit == IF run = 1 THEN MaxRecords ELSE MaxRerunRecords

CanRead == pc = "running" /\ Len(consumed) < ReadLimit

\* a continuation line while nothing is open is skipped without an error
RaiseOrphanSkipped(record) ==
    /\ CanRead
    /\ ConvertBranch(opened, record) = "raise_orphan"
    /\ consumed' = Append(consumed, record)
    /\ UNCHANGED <<opened, emitted, groups, tagOrder, pc, error, returned>>
    /\ UNCHANGED <<fileVars, runVars, hdrVars, tagVars, tickVars>>

\* lines 110-112: a continuation line while nothing is open
RaiseOrphan(record) ==
    /\ CanRead
    /\ ConvertBranch(opened, record) = "raise_orphan"
    /\ consumed' = Append(consumed, record)
    /\ pc' = "raised"
    /\ error' = "orphan"
    /\ UNCHANGED <<opened, emitted, groups, tagOrder, returned>>
    /\ UNCHANGED <<fileVars, runVars, hdrVars, tagVars, tickVars>>

\* lines 110-116: a continuation line is added to the open entry
AddMessage(record) ==
    /\ CanRead
    /\ ConvertBranch(opened, record) = "add_message"
    /\ consumed' = Append(consumed, record)
    /\ opened' = <<add_message(opened[1], record.message)>>
    /\ UNCHANGED <<emitted, groups, tagOrder, pc, error, returned>>
    /\ UNCHANGED <<fileVars, runVars, hdrVars, tagVars, tickVars>>

\* lines 118-121: a header while nothing is open
OpenEntry(record) ==
    /\ CanRead
    /\ ConvertBranch(opened, record) = "open"
    /\ consumed' = Append(consumed, record)
    /\ opened' = <<OpenedLogEntry(entry_header(record)[1], occurred_at(record.ticks))>>
    /\ UNCHANGED <<emitted, groups, tagOrder, pc, error, returned>>
    /\ UNCHANGED <<fileVars, runVars, hdrVars, tagVars, tickVars>>

\* a header while an entry is open replaces it; the open entry is not yielded
CloseAndOpenDropsPrevious(record) ==
    /\ CanRead
    /\ ConvertBranch(opened, record) = "close_and_open"
    /\ close(opened[1]) # <<>>
    /\ consumed' = Append(consumed, record)
    /\ opened' = <<OpenedLogEntry(entry_header(record)[1], occurred_at(record.ticks))>>
    /\ UNCHANGED <<emitted, groups, tagOrder, pc, error, returned>>
    /\ UNCHANGED <<fileVars, runVars, hdrVars, tagVars, tickVars>>

\* lines 118-121 and 127-128: a header while an entry is open; the open entry
\* is closed, yielded to split_records and grouped, then the new one is opened
CloseAndOpen(record) ==
    /\ CanRead
    /\ ConvertBranch(opened, record) = "close_and_open"
    /\ close(opened[1]) # <<>>
    /\ consumed' = Append(consumed, record)
    /\ emitted' = Append(emitted, close(opened[1])[1])
    /\ groups' = GroupAppend(groups, close(opened[1])[1])
    /\ tagOrder' = OrderAppend(tagOrder, close(opened[1])[1])
    /\ opened' = <<OpenedLogEntry(entry_header(record)[1], occurred_at(record.ticks))>>
    /\ UNCHANGED <<pc, error, returned>>
    /\ UNCHANGED <<fileVars, runVars, hdrVars, tagVars, tickVars>>

\* lines 118-119 and 74-75: a header while an entry without messages is open
RaiseEmpty(record) ==
    /\ CanRead
    /\ ConvertBranch(opened, record) = "close_and_open"
    /\ close(opened[1]) = <<>>
    /\ consumed' = Append(consumed, record)
    /\ pc' = "raised"
    /\ error' = "empty"
    /\ UNCHANGED <<opened, emitted, groups, tagOrder, returned>>
    /\ UNCHANGED <<fileVars, runVars, hdrVars, tagVars, tickVars>>

\* the source is exhausted: convert_records' loop ends (line 107) and the
\* generator returns, split_records' loop ends and it returns groups (line 130)
EndOfInput ==
    /\ pc = "running"
    /\ emitted' = emitted \o YieldAtEnd(opened)
    /\ groups' = GroupAll(groups, YieldAtEnd(opened))
    /\ tagOrder' = tagOrder
    /\ returned' = <<groups'>>
    /\ pc' = "returned"
    /\ UNCHANGED <<consumed, opened, error>>
    /\ UNCHANGED <<fileVars, runVars, hdrVars, tagVars, tickVars>>

Next ==
    \/ \E record \in Records : RaiseOrphan(record)
    \/ \E record \in Records : AddMessage(record)
    \/ \E record \in Records : OpenEntry(record)
    \/ \E record \in Records : CloseAndOpen(record)
    \/ \E record \in Records : RaiseEmpty(record)
    \/ EndOfInput

Spec == Init /\ [][Next]_vars

----------------------------------------------------------------------------
(* convert_files: the conversion run followed by the output steps.  A file   *)
(* is modelled by the entries write_log_file is given for it; the text       *)
(* LogEntry.format makes of an entry is not modelled.                        *)

\* os.mkdir done while the input is still being read
MakeLogDirEarly ==
    /\ pc \in {"running", "returned"}
    /\ ~logDir
    /\ logDir' = TRUE
    /\ pc' = IF pc = "returned" THEN "writing" ELSE pc
    /\ UNCHANGED <<consumed, opened, emitted, groups, tagOrder, error, returned>>
    /\ UNCHANGED <<files, runVars, hdrVars, tagVars, tickVars>>

\* a ValueError raised in line 84 leaves convert_files: lines 86-94 do not run.
\* line 90, reached when split_records has returned: os.mkdir(log_dir_name)
MakeLogDir ==
    /\ pc = "returned"
    /\ logDir' = TRUE
    /\ pc' = "writing"
    /\ UNCHANGED <<consumed, opened, emitted, groups, tagOrder, error, returned>>
    /\ UNCHANGED <<files, runVars, hdrVars, tagVars, tickVars>>

\* the tags of records.items() whose file is not written yet, in dict order
TagsToWrite == SelectSeq(tagOrder, LAMBDA t : t \notin DOMAIN files)

\* lines 92-94: one iteration of the loop over records.items()
WriteLogFile ==
    /\ pc = "writing"
    /\ TagsToWrite # <<>>
    /\ files' = [t \in DOMAIN files \cup {Head(TagsToWrite)} |->
                    IF t = Head(TagsToWrite) THEN returned[1][t] ELSE files[t]]
    /\ UNCHANGED <<convVars, logDir, runVars, hdrVars, tagVars, tickVars>>

\* the loop of line 92 ends and convert_files returns
FilesDone ==
    /\ pc = "writing"
    /\ TagsToWrite = <<>>
    /\ pc' = "done"
    /\ UNCHANGED <<consumed, opened, emitted, groups, tagOrder, error, returned>>
    /\ UNCHANGED <<fileVars, runVars, hdrVars, tagVars, tickVars>>

FilesNext ==
    \/ Next
    \/ MakeLogDir
    \/ WriteLogFile
    \/ FilesDone

SpecFiles == Init /\ [][FilesNext]_vars

----------------------------------------------------------------------------
(* Several conversion runs in one process: the core is called again after   *)
(* a run has returned or raised.                                             *)

\* a second call that finds `groups` as the call before left it
NewRunKeepsGroups ==
    /\ pc \in {"returned", "raised"}
    /\ run < MaxRuns
    /\ Len(consumed) <= MaxRerunRecords + 1
    /\ prev' = << [input |-> consumed, returned |-> returned, error |-> error] >>
    /\ run' = run + 1
    /\ consumed' = <<>>
    /\ opened' = <<>>
    /\ emitted' = <<>>
    /\ pc' = "running"
    /\ error' = "none"
    /\ returned' = <<>>
    /\ UNCHANGED <<groups, tagOrder>>
    /\ UNCHANGED <<fileVars, hdrVars, tagVars, tickVars>>

\* split_records(convert_records(...)) is called again: line 105 binds a new
\* local `opened` = None, line 125 a new local `groups` = defaultdict(list);
\* the module keeps nothing of the call before (LOG_LEVELS, BRACKET_PATTERN
\* and LOCAL_TZ are never assigned or mutated)
NewRun ==
    /\ pc \in {"returned", "raised"}
    /\ run < MaxRuns
    /\ Len(consumed) <= MaxRerunRecords + 1
    /\ prev' = << [input |-> consumed, returned |-> returned, error |-> error] >>
    /\ run' = run + 1
    /\ consumed' = <<>>
    /\ opened' = <<>>
    /\ emitted' = <<>>
    /\ groups' = <<>>
    /\ tagOrder' = <<>>
    /\ pc' = "running"
    /\ error' = "none"
    /\ returned' = <<>>
    /\ UNCHANGED <<fileVars, hdrVars, tagVars, tickVars>>

RunsNext ==
    \/ Next
    \/ NewRun

SpecRuns == Init /\ [][RunsNext]_vars

\* split_records(convert_records(input)) as a function of its input: the
\* outcome of the loop of lines 107-121 started with `opened` = o and
\* `groups` = g on the records still to read
RECURSIVE RunFrom(_, _, _)
RunFrom(o, g, input) ==
    IF input = <<>>
    THEN [returned |-> <<GroupAll(g, YieldAtEnd(o))>>, error |-> "none"]
    ELSE LET record == Head(input)
             branch == ConvertBranch(o, record)
             fresh == <<OpenedLogEntry(entry_header(record)[1], occurred_at(record.ticks))>>
         IN CASE branch = "raise_orphan" -> [returned |-> <<>>, error |-> "orphan"]
              [] branch = "add_message" ->
                    RunFrom(<<add_message(o[1], record.message)>>, g, Tail(input))
              [] branch = "open" -> RunFrom(fresh, g, Tail(input))
              [] branch = "close_and_open" ->
                    IF close(o[1]) = <<>>
                    THEN [returned |-> <<>>, error |-> "empty"]
                    ELSE RunFrom(fresh, GroupAppend(g, close(o[1])[1]), Tail(input))

\* the outcome of a run of the core on input in a fresh process
FreshRun(input) == RunFrom(<<>>, <<>>, input)

----------------------------------------------------------------------------
(* normalize_tag applied to a string, and again to its own result *)

TagAlphabet == {"[", "]", "1", ".", " ", "a"}

\* all strings over TagAlphabet of length n
RECURSIVE StringsOfLen(_)
StringsOfLen(n) ==
    IF n = 0 THEN { <<>> }
    ELSE { <<c>> \o s : c \in TagAlphabet, s \in StringsOfLen(n - 1) }

\* "Worker[2].Startup"
tWorker ==
    <<"W", "o", "r", "k", "e", "r", "[", "2", "]", ".", "S", "t", "a", "r", "t", "u", "p">>

\* "[[1]2]"
tNested ==
    <<"[", "[", "1", "]", "2", "]">>

\* "[1[2]]"
tAdjacent ==
    <<"[", "1", "[", "2", "]", "]">>

\* the arguments tried: every string of at most maxLen characters, and three
\* longer ones
TagInputs(maxLen) ==
    UNION { StringsOfLen(n) : n \in 0..maxLen } \cup {tWorker, tNested, tAdjacent}

TagInit ==
    /\ tagIn \in TagInputs(MaxTagLen)
    /\ tagOut = <<>>
    /\ ConvInit /\ FileInit /\ RunInit
    /\ HdrIdle /\ TickIdle

\* result = normalize_tag(source)
Normalize ==
    /\ tagOut = <<>>
    /\ tagOut' = <<normalize_tag(tagIn)>>
    /\ UNCHANGED <<tagIn, convVars, fileVars, runVars, hdrVars, tickVars>>

\* result = normalize_tag(result)
NormalizeAgain ==
    /\ Len(tagOut) = 1
    /\ tagOut' = Append(tagOut, normalize_tag(tagOut[1]))
    /\ UNCHANGED <<tagIn, convVars, fileVars, runVars, hdrVars, tickVars>>

TagNext == Normalize \/ NormalizeAgain

SpecTag == TagInit /\ [][TagNext]_vars

----------------------------------------------------------------------------
(* LogRecord.occurred_at computed for a tick count and for its double *)

TickInit ==
    /\ tickIn \in 0..MaxTicks
    /\ tickOut = <<>>
    /\ ConvInit /\ FileInit /\ RunInit
    /\ HdrIdle /\ TagIdle

\* LogRecord(ticks, ...).occurred_at
ComputeInstant ==
    /\ tickOut = <<>>
    /\ tickOut' = <<occurred_at(tickIn)>>
    /\ UNCHANGED <<tickIn, convVars, fileVars, runVars, hdrVars, tagVars>>

\* LogRecord(2 * ticks, ...).occurred_at
ComputeInstantOfDouble ==
    /\ Len(tickOut) = 1
    /\ tickOut' = Append(tickOut, occurred_at(2 * tickIn))
    /\ UNCHANGED <<tickIn, convVars, fileVars, runVars, hdrVars, tagVars>>

TickNext == ComputeInstant \/ ComputeInstantOfDouble

SpecTick == TickInit /\ [][TickNext]_vars

----------------------------------------------------------------------------
(* LogRecord.entry_header read on a record *)

\* how a message may begin: the three prefixes, near misses of them, a prefix
\* followed by another prefix, and nothing
HeaderHeads ==
    { <<"i", "n", "f", "o", ":", " ">>,
      <<"w", "a", "r", "n", ":", " ">>,
      <<"f", "a", "i", "l", ":", " ">>,
      <<"i", "n", "f", "o", ":">>,
      <<"w", "a", "r", "n", " ", ":">>,
      <<"f", "a", "i", "l">>,
      <<"I", "n", "f", "o", ":", " ">>,
      <<" ", "i", "n", "f", "o", ":", " ">>,
      <<"i", "n", "f", "o", ":", " ", "w", "a", "r", "n", ":", " ">>,
      <<"f", "a", "i", "l", ":", " ", "i", "n", "f", "o", ":", " ">>,
      <<"d", "e", "b", "u", "g", ":", " ">>,
      <<>> }

HeaderRestAlphabet == {"a", " ", ":"}

\* all strings over HeaderRestAlphabet of length n
RECURSIVE RestsOfLen(_)
RestsOfLen(n) ==
    IF n = 0 THEN { <<>> }
    ELSE { <<c>> \o s : c \in HeaderRestAlphabet, s \in RestsOfLen(n - 1) }

\* the records tried: every head followed by a text of at most maxLen characters
HeaderInputs(maxLen) ==
    { LogRecord(100, head \o rest) :
        head \in HeaderHeads, rest \in UNION { RestsOfLen(n) : n \in 0..maxLen } }

HdrInit ==
    /\ hdrIn \in HeaderInputs(MaxRestLen)
    /\ hdrOut = <<>>
    /\ ConvInit /\ FileInit /\ RunInit
    /\ TagIdle /\ TickIdle

\* header = record.entry_header
MatchHeader ==
    /\ hdrOut = <<>>
    /\ hdrOut' = <<entry_header(hdrIn)>>
    /\ UNCHANGED <<hdrIn, convVars, fileVars, runVars, tagVars, tickVars>>

HdrNext == MatchHeader

SpecHeader == HdrInit /\ [][HdrNext]_vars

----------------------------------------------------------------------------
(* Vocabulary of the properties: what the input says, read off the input    *)
(* history alone.                                                            *)

IsHeader(record) == entry_header(record) # <<>>

\* positions of the header lines of an input
HeaderPositions(input) == {i \in 1..Len(input) : IsHeader(input[i])}

NumHeaders(input) == Cardinality(HeaderPositions(input))

\* the position of the k-th header line of an input
NthHeader(input, k) ==
    CHOOSE i \in HeaderPositions(input) :
        Cardinality({j \in HeaderPositions(input) : j <= i}) = k

\* the position behind the last continuation line that follows header i
EntryEnd(input, i) ==
    IF \E j \in HeaderPositions(input) : j > i
    THEN (CHOOSE j \in HeaderPositions(input) :
              j > i /\ \A m \in HeaderPositions(input) : m > i => j <= m)
    ELSE Len(input) + 1

\* the continuation lines between header i and the next header or the end
LinesOf(input, i) ==
    [k \in 1..(EntryEnd(input, i) - i - 1) |-> input[i + k].message]

\* the entry the header at position i stands for
ExpectedEntry(input, i) ==
    [occurred_at |-> occurred_at(input[i].ticks),
     tag |-> normalize_tag(entry_header(input[i])[1].message),
     level |-> entry_header(input[i])[1].level,
     message |-> Strip(JoinLines(LinesOf(input, i)))]

\* the entries an input stands for, in the order of their headers
ExpectedEntries(input) ==
    [k \in 1..NumHeaders(input) |-> ExpectedEntry(input, NthHeader(input, k))]

\* every header line is followed by at least one continuation line
EveryHeaderHasLines(input) ==
    \A i \in HeaderPositions(input) : LinesOf(input, i) # <<>>

IsPrefix(s, t) == Len(s) <= Len(t) /\ s = SubSeq(t, 1, Len(s))

\* all entries of a grouped mapping
EntriesOf(g) == UNION { {g[t][k] : k \in 1..Len(g[t])} : t \in DOMAIN g }

----------------------------------------------------------------------------
(* C1 .. C10 *)

\* C1: at end of input the entry that is still open is closed and emitted:
\* when the run has completed and the last header of the input is followed by
\* at least one continuation line, the last emitted entry is the entry of that
\* last header; for the empty input nothing is emitted and no error is raised.
C1_OpenEntryEmittedAtEnd ==
    pc = "returned" =>
        /\ consumed = <<>> => emitted = <<>> /\ error = "none"
        /\ \A i \in HeaderPositions(consumed) :
              (EntryEnd(consumed, i) = Len(consumed) + 1 /\ LinesOf(consumed, i) # <<>>)
              => /\ emitted # <<>>
                 /\ emitted[Len(emitted)] = ExpectedEntry(consumed, i)

\* C2: when no empty-entry error occurs and the run completes, the number of
\* entries emitted equals the number of header lines of the input.
C2_EmittedEqualsHeaders ==
    pc = "returned" => Len(emitted) = NumHeaders(consumed)

\* C3: an entry with zero accumulated lines is never silently dropped: a header
\* directly followed by another header makes the run fail with the empty-entry
\* error, and no run completes whose input has a header directly followed by
\* another header or by the end of input.
C3_EmptyEntryNeverDropped ==
    /\ (\E i \in HeaderPositions(consumed) : i + 1 \in HeaderPositions(consumed))
          => pc = "raised" /\ error = "empty"
    /\ pc = "returned" =>
          \A i \in HeaderPositions(consumed) : LinesOf(consumed, i) # <<>>

\* C4: a continuation line processed while no entry is open fails the run with
\* the orphan-continuation error; an input without header lines is either
\* empty, with nothing emitted, or has failed on its first record with nothing
\* emitted and nothing returned.
C4_OrphanContinuation ==
    /\ (consumed # <<>> /\ ~IsHeader(consumed[1]))
          => pc = "raised" /\ error = "orphan"
    /\ error = "orphan" => ~IsHeader(consumed[Len(consumed)])
    /\ NumHeaders(consumed) = 0 =>
          \/ consumed = <<>> /\ emitted = <<>> /\ error = "none"
          \/ /\ Len(consumed) = 1
             /\ pc = "raised" /\ error = "orphan"
             /\ emitted = <<>> /\ returned = <<>>

\* C4 witness: a run that failed on a continuation line read as first record
C4_Witness ==
    /\ pc = "raised" /\ error = "orphan"
    /\ Len(consumed) = 1 /\ NumHeaders(consumed) = 0

\* C5: the core is all-or-nothing: a run that raised returned no mapping, and
\* a run that returned returned a mapping holding the entry of every header of
\* the input.
C5_AllOrNothing ==
    /\ pc = "raised" => returned = <<>>
    /\ pc = "returned" =>
          /\ returned # <<>>
          /\ \A i \in HeaderPositions(consumed) :
                ExpectedEntry(consumed, i) \in EntriesOf(returned[1])

\* the entries of an input whose tag is t, in the order of their headers
ExpectedGroup(input, t) ==
    SelectSeq(ExpectedEntries(input), LAMBDA e : e.tag = t)

\* C6: within every tag group, of the mapping under construction and of the
\* mapping returned, the entries stand in the order in which their headers
\* stand in the input, whatever their tick values.
C6_GroupsInInputOrder ==
    /\ \A t \in DOMAIN groups :
          IsPrefix(groups[t], ExpectedGroup(consumed, t))
    /\ returned # <<>> =>
          \A t \in DOMAIN returned[1] :
              IsPrefix(returned[1][t], ExpectedGroup(consumed, t))

\* C6 witness: a returned group whose first entry is later in time than its
\* second one
C6_Witness ==
    /\ returned # <<>>
    /\ \E t \in DOMAIN returned[1] :
          /\ Len(returned[1][t]) >= 2
          /\ returned[1][t][1].occurred_at > returned[1][t][2].occurred_at

\* C7: normalize_tag is idempotent: applying it to its own result changes
\* nothing.
C7_NormalizeIdempotent ==
    Len(tagOut) = 2 => tagOut[2] = tagOut[1]

\* "Started ok"
tStartedOk ==
    <<"S", "t", "a", "r", "t", "e", "d", " ", "o", "k">>

\* "Boot"
tBoot ==
    <<"B", "o", "o", "t">>

ScenarioA ==
    << LogRecord(100, mInfoBoot), LogRecord(200, mStartedOk),
       LogRecord(300, mWarnBoot), LogRecord(400, mRetrying) >>

ScenarioAEntries ==
    << [occurred_at |-> 10, tag |-> tBoot, level |-> "info", message |-> tStartedOk],
       [occurred_at |-> 30, tag |-> tBoot, level |-> "warn", message |-> mRetrying] >>

\* C8: for a completed run over an input in which every header is followed by
\* at least one continuation line, the i-th emitted entry is the entry of the
\* i-th header (its level, its normalized tag, the instant of its ticks, its
\* continuation lines joined and trimmed); Scenario A yields its two entries,
\* and group Boot holds both in that order.
C8_EntriesOfHeaders ==
    (pc = "returned" /\ EveryHeaderHasLines(consumed)) =>
        /\ emitted = ExpectedEntries(consumed)
        /\ consumed = ScenarioA =>
              /\ emitted = ScenarioAEntries
              /\ returned = << [t \in {tBoot} |-> ScenarioAEntries] >>

\* C9 as stated: ticks = 0 gives the epoch, and for every tick count the
\* microseconds elapsed since the epoch for 2*ticks are twice those for ticks.
C9_LinearForAllTicks ==
    /\ (tickOut # <<>> /\ tickIn = 0) => tickOut[1] = 0
    /\ Len(tickOut) = 2 => tickOut[2] = 2 * tickOut[1]

\* C9 amended: ticks = 0 gives the epoch, and for every tick count that is a
\* multiple of 10 the microseconds elapsed since the epoch for 2*ticks are
\* twice those for ticks.
C9_LinearOnWholeMicroseconds ==
    /\ (tickOut # <<>> /\ tickIn = 0) => tickOut[1] = 0
    /\ (Len(tickOut) = 2 /\ tickIn % 10 = 0) => tickOut[2] = 2 * tickOut[1]

\* C9 witness: a positive multiple of 10 and its double have been converted
C9_Witness ==
    /\ Len(tickOut) = 2
    /\ tickIn % 10 = 0
    /\ tickOut[1] > 0

\* position i of s lies inside an occurrence of '[' + digit + ']'
InMarker(s, i) ==
    \E j \in {i - 2, i - 1, i} :
        /\ j >= 1 /\ j + 2 <= Len(s)
        /\ s[j] = "[" /\ s[j + 1] \in Digits /\ s[j + 2] = "]"

\* s without the positions that satisfy Drop
Without(s, Drop(_)) ==
    LET keep == SelectSeq([i \in 1..Len(s) |-> i], LAMBDA i : ~Drop(i))
    IN [k \in 1..Len(keep) |-> s[keep[k]]]

\* s between its first and its last non-blank character
Trimmed(s) ==
    LET solid == {i \in 1..Len(s) : s[i] \notin Whitespace}
    IN IF solid = {} THEN <<>>
       ELSE SubSeq(s, CHOOSE i \in solid : \A j \in solid : i <= j,
                      CHOOSE i \in solid : \A j \in solid : i >= j)

\* the tag the description of normalize_tag prescribes for s
PrescribedTag(s) ==
    LET unmarked == Without(s, LAMBDA i : InMarker(s, i))
    IN Trimmed([k \in 1..Len(unmarked) |->
                   IF unmarked[k] = "." THEN "_" ELSE unmarked[k]])

\* "Worker_Startup"
tWorkerStartup ==
    <<"W", "o", "r", "k", "e", "r", "_", "S", "t", "a", "r", "t", "u", "p">>

\* C10: normalize_tag(s) is s with every '[' + digit + ']' removed, then every
\* '.' replaced by '_', then blanks trimmed from both ends;
\* normalize_tag("Worker[2].Startup") is "Worker_Startup".
C10_NormalizeTagShape ==
    tagOut # <<>> =>
        /\ tagOut[1] = PrescribedTag(tagIn)
        /\ tagIn = tWorker => tagOut[1] = tWorkerStartup

\* C10 witness: an argument in which a marker is removed, a dot replaced and a
\* blank trimmed
C10_Witness ==
    /\ tagOut # <<>>
    /\ \E i \in 1..Len(tagIn) : InMarker(tagIn, i)
    /\ \E i \in 1..Len(tagIn) : tagIn[i] = "."
    /\ tagIn # <<>> /\ tagIn[1] \in Whitespace
    /\ tagOut[1] # <<>>

----------------------------------------------------------------------------
(* C11 .. C18 *)

\* C11: the output directory is made and files are written only once the
\* whole input is parsed and grouped, the directory before any file; a run
\* whose parsing failed has made no directory and written no file.
C11_OutputOnlyAfterGrouping ==
    /\ (logDir \/ DOMAIN files # {}) =>
          /\ returned # <<>>
          /\ error = "none"
          /\ pc \in {"writing", "done"}
    /\ DOMAIN files # {} => logDir
    /\ pc = "raised" => ~logDir /\ DOMAIN files = {}

\* C11 witness: parsing failed after an entry had already been yielded and
\* grouped, and nothing was made or written
C11_Witness ==
    /\ pc = "raised"
    /\ emitted # <<>>
    /\ ~logDir /\ DOMAIN files = {}

\* the texts "info: ", "warn: ", "fail: "
HeaderPrefixes ==
    { <<"i", "n", "f", "o", ":", " ">>,
      <<"w", "a", "r", "n", ":", " ">>,
      <<"f", "a", "i", "l", ":", " ">> }

\* the level a prefix names
LevelOfPrefix(p) ==
    CASE p[1] = "i" -> "info"
      [] p[1] = "w" -> "warn"
      [] p[1] = "f" -> "fail"

\* the prefixes a message starts with
PrefixesOf(msg) == {p \in HeaderPrefixes : StartsWith(msg, p)}

\* entry_header has answered as the description of the matcher prescribes
HeaderAsPrescribed ==
    hdrOut # <<>> =>
        /\ Cardinality(PrefixesOf(hdrIn.message)) <= 1
        /\ hdrOut[1] # <<>> <=> PrefixesOf(hdrIn.message) # {}
        /\ hdrOut[1] # <<>> =>
              \E p \in PrefixesOf(hdrIn.message) :
                  /\ hdrOut[1][1].level = LevelOfPrefix(p)
                  /\ p \o hdrOut[1][1].message = hdrIn.message

\* C12: a message is a header if and only if it starts with "info: ",
\* "warn: " or "fail: "; at most one of the three matches; on a match the
\* level is that of the prefix and the remainder is the message without
\* exactly that prefix; reading entry_header leaves the record as it was.
C12_HeaderMatch ==
    /\ []HeaderAsPrescribed
    /\ [][hdrIn' = hdrIn]_vars

\* C12 witness: a header whose remainder begins with another prefix
C12_Witness ==
    /\ hdrOut # <<>>
    /\ hdrOut[1] # <<>>
    /\ PrefixesOf(hdrOut[1][1].message) # {}

\* this step reads one more record
ReadsRecord ==
    /\ Len(consumed') = Len(consumed) + 1
    /\ SubSeq(consumed', 1, Len(consumed)) = consumed

\* the record this step reads
RecordRead == consumed'[Len(consumed')]

\* C13: processing a continuation line while an entry is open appends the
\* message as it is as last accumulated line of that entry and changes
\* nothing else: level, tag and occurred_at of the open entry, the emitted
\* entries, the groups and the state of the run stay as they were.
C13_ContinuationFrame ==
    [][ (ReadsRecord /\ opened # <<>> /\ ~IsHeader(RecordRead)) =>
          /\ Len(opened') = 1
          /\ opened'[1].messages = opened[1].messages \o <<RecordRead.message>>
          /\ opened'[1].level = opened[1].level
          /\ opened'[1].tag = opened[1].tag
          /\ opened'[1].occurred_at = opened[1].occurred_at
          /\ UNCHANGED <<emitted, groups, tagOrder, pc, error, returned>> ]_vars

\* C13 witness: an open entry that has taken two lines, the last one with its
\* surrounding blanks, after an earlier entry was emitted
C13_Witness ==
    /\ opened # <<>>
    /\ Len(opened[1].messages) >= 2
    /\ opened[1].messages[Len(opened[1].messages)] = mPadded
    /\ emitted # <<>>

\* C14: every emitted entry was closed from at least one message line: the
\* k-th emitted entry belongs to the k-th header of the input, and that header
\* is followed by at least one continuation line; the groups hold emitted
\* entries only.
C14_EmittedHaveLines ==
    /\ Len(emitted) <= NumHeaders(consumed)
    /\ \A k \in 1..Len(emitted) :
          LinesOf(consumed, NthHeader(consumed, k)) # <<>>
    /\ EntriesOf(groups) = {emitted[k] : k \in 1..Len(emitted)}

\* C14 witness: two entries have been emitted
C14_Witness == Len(emitted) >= 2

\* C15: at most one entry is open; while the run has not failed, no entry is
\* open exactly when no header has been processed; a header read while an
\* entry is open, in a run that goes on, closes and emits that entry and opens
\* the entry of the new header.
C15_OneOpenEntry ==
    /\ [](/\ Len(opened) <= 1
          /\ error = "none" => (opened = <<>> <=> NumHeaders(consumed) = 0))
    /\ [][ (ReadsRecord /\ opened # <<>> /\ IsHeader(RecordRead) /\ error' = "none") =>
              /\ Len(emitted') = Len(emitted) + 1
              /\ SubSeq(emitted', 1, Len(emitted)) = emitted
              /\ emitted'[Len(emitted')].tag = opened[1].tag
              /\ emitted'[Len(emitted')].level = opened[1].level
              /\ emitted'[Len(emitted')].occurred_at = opened[1].occurred_at
              /\ Len(opened') = 1
              /\ opened'[1].messages = <<>>
              /\ opened'[1].level = entry_header(RecordRead)[1].level
              /\ opened'[1].occurred_at = occurred_at(RecordRead.ticks) ]_vars

\* C15 witness: a run that goes on with an entry open after another entry
\* was closed and emitted
C15_Witness ==
    /\ pc = "running"
    /\ emitted # <<>>
    /\ opened # <<>>

\* g holds each of the entries once, in the group of its tag, and no more
Partitions(g, entries) ==
    /\ DOMAIN g = {entries[k].tag : k \in 1..Len(entries)}
    /\ \A t \in DOMAIN g :
          /\ g[t] # <<>>
          /\ g[t] = SelectSeq(entries, LAMBDA e : e.tag = t)

\* C16: split_records partitions its input: every entry it was given is once
\* in the result, in the group keyed by its tag; no group is empty; the keys
\* are the tags of the entries given.
C16_GroupsPartitionEntries ==
    /\ Partitions(groups, emitted)
    /\ returned # <<>> => Partitions(returned[1], emitted)

\* C16 witness: a returned mapping of two groups
C16_Witness ==
    /\ returned # <<>>
    /\ Cardinality(DOMAIN returned[1]) >= 2

\* C17: runs share no state: a run that has ended has the outcome (mapping
\* returned, or error) of a run on the same input in a fresh process, whatever
\* was run before it; in particular the outcome of the run before, when that
\* had the same input.
C17_RunsShareNoState ==
    pc \in {"returned", "raised"} =>
        /\ [returned |-> returned, error |-> error] = FreshRun(consumed)
        /\ (prev # <<>> /\ prev[1].input = consumed) =>
              (returned = prev[1].returned /\ error = prev[1].error)

\* C17 witness: a second run that returned, on an input of two records, after
\* a run that failed while an entry was open
C17_Witness ==
    /\ run = 2
    /\ pc = "returned"
    /\ Len(consumed) = 2
    /\ prev[1].error = "empty"

\* t has no '.' and neither begins nor ends with a blank
IsNormalized(t) ==
    /\ \A i \in 1..Len(t) : t[i] # "."
    /\ t # <<>> => (t[1] \notin Whitespace /\ t[Len(t)] \notin Whitespace)

\* the tags of the open entry, the emitted entries and the groups are normalized
TagsNormalized ==
    /\ opened # <<>> => IsNormalized(opened[1].tag)
    /\ \A k \in 1..Len(emitted) : IsNormalized(emitted[k].tag)
    /\ \A t \in DOMAIN groups : IsNormalized(t)
    /\ returned # <<>> => \A t \in DOMAIN returned[1] : IsNormalized(t)

\* C18: every key of the grouped mapping and every emitted entry's tag is a
\* normalized tag, without '.' and without a blank at either end; the tag of
\* an entry is set when its header is read and a continuation line read
\* afterwards does not change it.
C18_TagsNormalizedAndFixed ==
    /\ []TagsNormalized
    /\ [][ (ReadsRecord /\ opened # <<>> /\ opened' # <<>> /\ ~IsHeader(RecordRead)) =>
              opened'[1].tag = opened[1].tag ]_vars
    /\ [][ (ReadsRecord /\ Len(emitted') = Len(emitted) + 1) =>
              emitted'[Len(emitted')].tag = opened[1].tag ]_vars

\* C18 witness: a returned mapping with the key "Worker_Startup", made from a
\* header text with blanks, a bracket marker and a dot, whose entry has
\* taken a continuation line
C18_Witness ==
    /\ returned # <<>>
    /\ tWorkerStartup \in DOMAIN returned[1]

====
